---- MODULE Spec2Model ----
(***************************************************************************)
(* Model of the crossword placement engine of crossword_game.py: the grid, *)
(* can_place, place_word, try_place_word, the generate_crossword driver    *)
(* and number_grid.                                                        *)
(*                                                                         *)
(* Indices: rows, columns and letter offsets are 0-based as in the source; *)
(* a word is a TLA+ sequence, so the letter at source index i is word[i+1].*)
(***************************************************************************)
EXTENDS Integers, Sequences, FiniteSets, TLC

\* ---------------------------------------------------------------- bounds
\* side of the square grid (the size argument of generate_crossword)
Size == 4
\* number of candidates handed to the generator (max_words)
MaxWords == 3

Letters == {"A", "B"}

\* the empty cell (Python None)
None == "None"

\* the candidate words: every word of one or two letters, two words of three
\* letters, one word that fills a whole row and one that cannot fit
ShortWords == [1..1 -> Letters] \cup [1..2 -> Letters]
                 \cup {<<"A", "B", "A">>, <<"A", "A", "B">>}
FullWord == [i \in 1..Size |-> "A"]
LongWord == [i \in 1..(Size + 1) |-> "A"]
Words == ShortWords \cup {FullWord, LongWord}

VARIABLES
    selected,      \* generate_crossword: the candidate list
    grid,          \* generate_crossword: the grid
    placed_words,  \* generate_crossword: the placed-word sequence
    first,         \* generate_crossword: the popped seed candidate, <<>> if none
    k,             \* generate_crossword: position of the for loop in selected
    entry,         \* the candidate of the latest attempt, <<>> before any
    pw,            \* result of the latest attempt: <<>> (None) or <<PlacedWord>>
    numbers,       \* number_grid: number -> (row, col)
    across,        \* number_grid: number -> clue
    down,          \* number_grid: number -> clue
    pc             \* control position

vars == <<selected, grid, placed_words, first, k, entry, pw,
          numbers, across, down, pc>>

\* ------------------------------------------------------------ data model
WordEntry(word, clue) == [word |-> word, clue |-> clue]

\* variant: row and column recorded the wrong way round
PlacedWord_swapped(e, row, col, direction) ==
    [entry |-> e, row |-> col, col |-> row, direction |-> direction]

PlacedWord(e, row, col, direction) ==
    [entry |-> e, row |-> row, col |-> col, direction |-> direction]

\* len(grid)
GridSize(g) == Cardinality(DOMAIN g)

\* variant: cells start as a blank string instead of None
initialise_grid_blank(size) == [r \in 0..(size - 1) |-> [c \in 0..(size - 1) |-> " "]]

initialise_grid(size) == [r \in 0..(size - 1) |-> [c \in 0..(size - 1) |-> None]]

\* target cell of letter i (lines 96-97, 147-148, 253-254)
CellRow(row, direction, i) == row + (IF direction = 1 THEN i ELSE 0)
CellCol(col, direction, i) == col + (IF direction = 0 THEN i ELSE 0)

\* ------------------------------------------------------------- can_place
\* variant: an empty target cell is not checked for perpendicular neighbours
CellOK_noadjacent(word, row, col, direction, g, i) ==
    LET size == GridSize(g)
        r == CellRow(row, direction, i)
        c == CellCol(col, direction, i)
    IN  /\ ~(r < 0 \/ r >= size \/ c < 0 \/ c >= size)
        /\ ~(g[r][c] # None /\ g[r][c] # word[i + 1])

\* body of the for loop of can_place for letter i: TRUE when no return False
CellOK(word, row, col, direction, g, i) ==
    LET size == GridSize(g)
        r == CellRow(row, direction, i)
        c == CellCol(col, direction, i)
        ch == word[i + 1]
    IN  /\ ~(r < 0 \/ r >= size \/ c < 0 \/ c >= size)
        /\ LET existing == g[r][c]
           IN  /\ ~(existing # None /\ existing # ch)
               /\ existing = None =>
                    IF direction = 0
                    THEN /\ ~(r > 0 /\ g[r - 1][c] # None)
                         /\ ~(r < size - 1 /\ g[r + 1][c] # None)
                    ELSE /\ ~(c > 0 /\ g[r][c - 1] # None)
                         /\ ~(c < size - 1 /\ g[r][c + 1] # None)

\* the checks after the loop: the cells before the start and after the end
EndsOK(word, row, col, direction, g) ==
    LET size == GridSize(g)
    IN  IF direction = 0
        THEN /\ ~(col > 0 /\ g[row][col - 1] # None)
             /\ LET end_c == col + Len(word)
                IN  ~(end_c < size /\ g[row][end_c] # None)
        ELSE /\ ~(row > 0 /\ g[row - 1][col] # None)
             /\ LET end_r == row + Len(word)
                IN  ~(end_r < size /\ g[end_r][col] # None)

\* variant: a differing letter already on the grid is not a conflict
can_place_noconflict(word, row, col, direction, g) ==
    /\ \A i \in 0..(Len(word) - 1) :
         LET size == GridSize(g)
             r == CellRow(row, direction, i)
             c == CellCol(col, direction, i)
         IN  /\ ~(r < 0 \/ r >= size \/ c < 0 \/ c >= size)
             /\ g[r][c] = None =>
                  IF direction = 0
                  THEN /\ ~(r > 0 /\ g[r - 1][c] # None)
                       /\ ~(r < size - 1 /\ g[r + 1][c] # None)
                  ELSE /\ ~(c > 0 /\ g[r][c - 1] # None)
                       /\ ~(c < size - 1 /\ g[r][c + 1] # None)
    /\ EndsOK(word, row, col, direction, g)

\* a cell read that treats every cell off the grid as empty
CellOrNone(g, r, c) ==
    IF r \in DOMAIN g /\ c \in DOMAIN g[r] THEN g[r][c] ELSE None

\* variant: the bounds check tests only r < 0 and c < 0
can_place_noupper(word, row, col, direction, g) ==
    /\ \A i \in 0..(Len(word) - 1) :
         LET size == GridSize(g)
             r == CellRow(row, direction, i)
             c == CellCol(col, direction, i)
             existing == CellOrNone(g, r, c)
         IN  /\ ~(r < 0 \/ c < 0)
             /\ ~(existing # None /\ existing # word[i + 1])
             /\ existing = None =>
                  IF direction = 0
                  THEN /\ ~(r > 0 /\ CellOrNone(g, r - 1, c) # None)
                       /\ ~(r < size - 1 /\ CellOrNone(g, r + 1, c) # None)
                  ELSE /\ ~(c > 0 /\ CellOrNone(g, r, c - 1) # None)
                       /\ ~(c < size - 1 /\ CellOrNone(g, r, c + 1) # None)
    /\ EndsOK(word, row, col, direction, g)

can_place(word, row, col, direction, g) ==
    /\ \A i \in 0..(Len(word) - 1) : CellOK(word, row, col, direction, g, i)
    /\ EndsOK(word, row, col, direction, g)

\* ------------------------------------------------------------ place_word
RECURSIVE place_loop(_, _, _, _, _, _)
place_loop(word, row, col, direction, g, i) ==
    IF i >= Len(word)
    THEN g
    ELSE LET r == CellRow(row, direction, i)
             c == CellCol(col, direction, i)
         IN  place_loop(word, row, col, direction,
                        [g EXCEPT ![r][c] = word[i + 1]], i + 1)

\* variant: the loop stops one letter early
place_word_short(word, row, col, direction, g) ==
    place_loop(SubSeq(word, 1, Len(word) - 1), row, col, direction, g, 0)

place_word(word, row, col, direction, g) ==
    place_loop(word, row, col, direction, g, 0)

\* -------------------------------------------------------- try_place_word
\* anchor and direction derived from a letter pair (lines 174-181)
CrossRow(placed_word, i, j) ==
    IF placed_word.direction = 0 THEN placed_word.row - j ELSE placed_word.row + i
CrossCol(placed_word, i, j) ==
    IF placed_word.direction = 0 THEN placed_word.col + i ELSE placed_word.col - j
\* variant: the candidate keeps the orientation of the word it crosses
CrossDir_same(placed_word) == placed_word.direction

CrossDir(placed_word) ==
    IF placed_word.direction = 0 THEN 1 ELSE 0

\* the three nested loops, resumed at placed[p], letter i of it, letter j of
\* the candidate; the result is the returned value and the grid afterwards
RECURSIVE try_loop(_, _, _, _, _, _)
try_loop(e, placed, g, p, i, j) ==
    IF p > Len(placed)
    THEN [pw |-> <<>>, grid |-> g]
    ELSE
      LET placed_word == placed[p]
          pword == placed_word.entry.word
          word == e.word
      IN  IF i >= Len(pword) THEN try_loop(e, placed, g, p + 1, 0, 0)
          ELSE IF j >= Len(word) THEN try_loop(e, placed, g, p, i + 1, 0)
          ELSE IF pword[i + 1] # word[j + 1] THEN try_loop(e, placed, g, p, i, j + 1)
          ELSE
            LET row == CrossRow(placed_word, i, j)
                col == CrossCol(placed_word, i, j)
                direction == CrossDir(placed_word)
            IN  IF can_place(word, row, col, direction, g)
                THEN [pw |-> <<PlacedWord(e, row, col, direction)>>,
                      grid |-> place_word(word, row, col, direction, g)]
                ELSE try_loop(e, placed, g, p, i, j + 1)

\* variant: the candidate is written at the first crossing position before
\* it is validated
try_place_word_dirty(e, placed, g) ==
    LET res == try_loop(e, placed, g, 1, 0, 0)
    IN  IF res.pw = <<>> /\ placed # <<>>
        THEN [pw |-> <<>>,
              grid |-> place_word(e.word, CrossRow(placed[1], 0, 0),
                                  CrossCol(placed[1], 0, 0), CrossDir(placed[1]), g)]
        ELSE res

\* variant: the placed words are scanned newest first
try_place_word_newest(e, placed, g) ==
    try_loop(e, [p \in 1..Len(placed) |-> placed[Len(placed) + 1 - p]], g, 1, 0, 0)

\* variant: with no word placed yet the candidate is tried at the top-left
\* corner
try_place_word_fallback(e, placed, g) ==
    IF placed = <<>> /\ can_place(e.word, 0, 0, 0, g)
    THEN [pw |-> <<PlacedWord(e, 0, 0, 0)>>,
          grid |-> place_word(e.word, 0, 0, 0, g)]
    ELSE try_loop(e, placed, g, 1, 0, 0)

try_place_word(e, placed, g) == try_loop(e, placed, g, 1, 0, 0)

\* ---------------------------------------------------- generate_crossword
\* selected.sort(key=len(word), reverse=True): stable, longest first
RECURSIVE InsertByLen(_, _)
InsertByLen(e, s) ==
    IF s = <<>> THEN <<e>>
    ELSE IF Len(Head(s).word) >= Len(e.word)
         THEN <<Head(s)>> \o InsertByLen(e, Tail(s))
         ELSE <<e>> \o s

RECURSIVE SortByLen(_, _)
SortByLen(s, n) ==
    IF n = 0 THEN <<>> ELSE InsertByLen(s[n], SortByLen(s, n - 1))

\* variant: candidates of equal length come out in reverse arrival order
RECURSIVE sort_selected_unstable(_)
sort_selected_unstable(s) ==
    IF s = <<>> THEN <<>>
    ELSE LET rest == sort_selected_unstable(SubSeq(s, 1, Len(s) - 1))
             e == s[Len(s)]
             longer == SelectSeq(rest, LAMBDA x : Len(x.word) > Len(e.word))
             others == SelectSeq(rest, LAMBDA x : Len(x.word) <= Len(e.word))
         IN  longer \o <<e>> \o others

sort_selected(s) == SortByLen(s, Len(s))

Max(a, b) == IF a >= b THEN a ELSE b

\* variant: the row is not halved
seed_row_unhalved(size) == size

seed_row(size) == size \div 2
\* variant: the free width is not halved
seed_col_nohalf(size, word_len) == Max(0, size - word_len)

seed_col(size, word_len) == Max(0, (size - word_len) \div 2)

EmptyMap == [n \in {} |-> None]

\* the candidates returned by select_words, each with a distinct clue
Init ==
    /\ \E n \in 0..MaxWords : \E ws \in [1..n -> Words] :
          selected = [i \in 1..n |-> WordEntry(ws[i], i)]
    /\ grid = initialise_grid(Size)
    /\ placed_words = <<>>
    /\ first = <<>>
    /\ k = 1
    /\ entry = <<>>
    /\ pw = <<>>
    /\ numbers = EmptyMap
    /\ across = EmptyMap
    /\ down = EmptyMap
    /\ pc = "sort"

Sort ==
    /\ pc = "sort"
    /\ selected' = sort_selected(selected)
    /\ pc' = "seed"
    /\ UNCHANGED <<grid, placed_words, first, k, entry, pw, numbers, across, down>>

\* lines 211-218 with a non-empty candidate list
Seed ==
    /\ pc = "seed"
    /\ selected # <<>>
    /\ LET f == Head(selected)
           word_len == Len(f.word)
           row == seed_row(Size)
           col == seed_col(Size, word_len)
       IN  /\ first' = <<f>>
           /\ selected' = Tail(selected)
           /\ entry' = <<f>>
           /\ IF can_place(f.word, row, col, 0, grid)
              THEN /\ grid' = place_word(f.word, row, col, 0, grid)
                   /\ placed_words' = Append(placed_words, PlacedWord(f, row, col, 0))
                   /\ pw' = <<PlacedWord(f, row, col, 0)>>
              ELSE /\ UNCHANGED <<grid, placed_words>>
                   /\ pw' = <<>>
    /\ pc' = "cross"
    /\ UNCHANGED <<k, numbers, across, down>>

\* line 211 with an empty candidate list
SeedNone ==
    /\ pc = "seed"
    /\ selected = <<>>
    /\ pc' = "cross"
    /\ UNCHANGED <<selected, grid, placed_words, first, k, entry, pw,
                   numbers, across, down>>

\* one iteration of the for loop of lines 220-223
Cross ==
    /\ pc = "cross"
    /\ k <= Len(selected)
    /\ LET e == selected[k]
           res == try_place_word(e, placed_words, grid)
       IN  /\ entry' = <<e>>
           /\ pw' = res.pw
           /\ grid' = res.grid
           /\ placed_words' = IF res.pw # <<>>
                              THEN Append(placed_words, res.pw[1])
                              ELSE placed_words
    /\ k' = k + 1
    /\ UNCHANGED <<selected, first, numbers, across, down, pc>>

\* line 225
Return ==
    /\ pc = "cross"
    /\ k > Len(selected)
    /\ pc' = "done"
    /\ UNCHANGED <<selected, grid, placed_words, first, k, entry, pw,
                   numbers, across, down>>

\* ----------------------------------------------------------- number_grid
\* the linear scans of lines 279-282 and 284-287: <<>> when no word matches,
\* otherwise the clue of the first word anchored at (r, c) in that direction
RECURSIVE first_match(_, _, _, _, _)
first_match(placed, direction, r, c, p) ==
    IF p > Len(placed) THEN <<>>
    ELSE IF placed[p].direction = direction /\ placed[p].row = r /\ placed[p].col = c
         THEN <<placed[p].entry.clue>>
         ELSE first_match(placed, direction, r, c, p + 1)

\* variant: the cell to the left is not required to be empty
start_across_noleft(g, r, c) ==
    LET size == GridSize(g)
    IN  c + 1 < size /\ g[r][c + 1] # None

start_across(g, r, c) ==
    LET size == GridSize(g)
    IN  /\ (c = 0 \/ g[r][c - 1] = None)
        /\ (c + 1 < size /\ g[r][c + 1] # None)

start_down(g, r, c) ==
    LET size == GridSize(g)
    IN  /\ (r = 0 \/ g[r - 1][c] = None)
        /\ (r + 1 < size /\ g[r + 1][c] # None)

\* variant: one number per direction that starts at the cell
num_step_perdir(sa, sd) == (IF sa THEN 1 ELSE 0) + (IF sd THEN 1 ELSE 0)

\* how far num advances for a numbered cell (line 288)
num_step(sa, sd) == 1

\* the row-major double loop, resumed at cell n = r * size + c
RECURSIVE number_loop(_, _, _, _, _, _, _)
number_loop(g, placed, n, num, nums, acr, dwn) ==
    LET size == GridSize(g)
        r == n \div size
        c == n % size
    IN  IF n >= size * size
        THEN [numbers |-> nums, across |-> acr, down |-> dwn]
        ELSE IF g[r][c] = None
        THEN number_loop(g, placed, n + 1, num, nums, acr, dwn)
        ELSE
          LET sa == start_across(g, r, c)
              sd == start_down(g, r, c)
              ma == first_match(placed, 0, r, c, 1)
              md == first_match(placed, 1, r, c, 1)
          IN  IF sa \/ sd
              THEN number_loop(g, placed, n + 1, num + num_step(sa, sd),
                     (num :> <<r, c>>) @@ nums,
                     IF sa /\ ma # <<>> THEN (num :> ma[1]) @@ acr ELSE acr,
                     IF sd /\ md # <<>> THEN (num :> md[1]) @@ dwn ELSE dwn)
              ELSE number_loop(g, placed, n + 1, num, nums, acr, dwn)

number_grid(g, placed) == number_loop(g, placed, 0, 1, EmptyMap, EmptyMap, EmptyMap)

\* variant: the number of the first anchor is stamped into its grid cell
number_grid_args_stamped(g, placed) ==
    [grid |-> IF placed = <<>> THEN g
              ELSE [g EXCEPT ![placed[1].row][placed[1].col] = "#"],
     placed |-> placed]

\* the two arguments as number_grid leaves them: it only reads grid
\* (lines 243, 259-272) and placed_words (lines 250-255, 279-287)
number_grid_args(g, placed) == [grid |-> g, placed |-> placed]

\* main, line 336
NumberGrid ==
    /\ pc = "done"
    /\ LET res == number_grid(grid, placed_words)
           args == number_grid_args(grid, placed_words)
       IN  /\ numbers' = res.numbers
           /\ across' = res.across
           /\ down' = res.down
           /\ grid' = args.grid
           /\ placed_words' = args.placed
    /\ pc' = "numbered"
    /\ UNCHANGED <<selected, first, k, entry, pw>>

\* a second call of number_grid on the same grid and placed-word sequence
NumberAgain ==
    /\ pc = "numbered"
    /\ LET res == number_grid(grid, placed_words)
           args == number_grid_args(grid, placed_words)
       IN  /\ numbers' = res.numbers
           /\ across' = res.across
           /\ down' = res.down
           /\ grid' = args.grid
           /\ placed_words' = args.placed
    /\ pc' = "renumbered"
    /\ UNCHANGED <<selected, first, k, entry, pw>>

Next == Sort \/ Seed \/ SeedNone \/ Cross \/ Return \/ NumberGrid \/ NumberAgain

\* the generator and main run to completion: no step is postponed for ever
FairSpec == Init /\ [][Next]_vars /\ WF_vars(Next)

Spec == Init /\ [][Next]_vars

\* ======================================================================
\* Properties
\* ======================================================================
WordOf(p) == p.entry.word
CellOf(p, i) == <<CellRow(p.row, p.direction, i), CellCol(p.col, p.direction, i)>>
Cells(p) == {CellOf(p, i) : i \in 0..(Len(WordOf(p)) - 1)}
OnGrid(cell) == cell[1] \in 0..(Size - 1) /\ cell[2] \in 0..(Size - 1)
NPlaced == Len(placed_words)
\* the step about to be taken is a placement attempt
Attempt == \/ pc = "seed" /\ selected # <<>>
           \/ pc = "cross" /\ k <= Len(selected)

\* C1: any two placed words that cover the same grid cell have the same
\* letter at that cell, in every state of the generation.
C1_SharedCellsAgree ==
    \A a \in 1..NPlaced : \A b \in 1..NPlaced :
      \A i \in 0..(Len(WordOf(placed_words[a])) - 1) :
        \A j \in 0..(Len(WordOf(placed_words[b])) - 1) :
          CellOf(placed_words[a], i) = CellOf(placed_words[b], j)
            => WordOf(placed_words[a])[i + 1] = WordOf(placed_words[b])[j + 1]

\* two different placed words do share a cell
C1_Witness ==
    \E a \in 1..NPlaced : \E b \in 1..NPlaced :
      /\ a < b
      /\ WordOf(placed_words[a]) # WordOf(placed_words[b])
      /\ Cells(placed_words[a]) \cap Cells(placed_words[b]) # {}

\* C2: every placed word, from its creation on and after every later
\* placement, reads back letter for letter from the grid, starting at its
\* anchor and following its orientation.
C2_PlacedWordsReadBack ==
    \A a \in 1..NPlaced :
      \A i \in 0..(Len(WordOf(placed_words[a])) - 1) :
        LET cell == CellOf(placed_words[a], i)
        IN  /\ OnGrid(cell)
            /\ grid[cell[1]][cell[2]] = WordOf(placed_words[a])[i + 1]

\* generation is over and two further words were placed after the seed
C2_Witness ==
    /\ pc = "done"
    /\ NPlaced >= 3
    /\ Cells(placed_words[1]) \cap Cells(placed_words[3]) # {}

\* C3: an attempt that places nothing (seed rejected by can_place, or
\* try_place_word returning None) leaves the grid and the placed-word
\* sequence exactly as they were.
C3_FailedAttemptChangesNothing ==
    [][(Attempt /\ pw' = <<>>) =>
           (grid' = grid /\ placed_words' = placed_words)]_vars

\* a crossing attempt failed although the candidate shares a letter with a
\* placed word, so can_place was called and answered False
C3_Witness ==
    /\ pc = "cross"
    /\ entry # <<>>
    /\ pw = <<>>
    /\ \E a \in 1..NPlaced :
         \E i \in 1..Len(WordOf(placed_words[a])) :
           \E j \in 1..Len(entry[1].word) :
             WordOf(placed_words[a])[i] = entry[1].word[j]

\* the word of the attempt about to be made, if any
NextWord == IF pc = "seed" /\ selected # <<>> THEN {selected[1].word}
            ELSE IF pc = "cross" /\ k <= Len(selected) THEN {selected[k].word}
            ELSE {}

\* C4: for the word about to be attempted and every anchor and direction
\* that can_place accepts on the current grid, the grid written by
\* place_word holds the word's i-th letter at offset i from the anchor
\* along the direction, for every i.
C4_PlaceThenReadIsWord ==
    \A word \in NextWord :
      \A row \in 0..(Size - 1) : \A col \in 0..(Size - 1) :
        \A direction \in {0, 1} :
          can_place(word, row, col, direction, grid) =>
            LET g2 == place_word(word, row, col, direction, grid)
            IN  \A i \in 0..(Len(word) - 1) :
                  LET r == IF direction = 1 THEN row + i ELSE row
                      c == IF direction = 0 THEN col + i ELSE col
                  IN  g2[r][c] = word[i + 1]

\* a validated crossing has just been written over a cell that was taken
C4_Witness ==
    /\ pw # <<>>
    /\ NPlaced >= 2
    /\ Len(pw[1].entry.word) >= 2
    /\ pw[1] = placed_words[NPlaced]

\* C5: the first placed word is the seed: horizontal, on row N // 2, at
\* column max(0, (N - L) // 2), and it is the first candidate of the
\* length-descending order (longest, earliest arrival among the longest).
C5_FirstPlacedIsSeed ==
    placed_words # <<>> =>
      LET s == placed_words[1]
          L == Len(s.entry.word)
      IN  /\ s.direction = 0
          /\ s.row = Size \div 2
          /\ s.col = (IF (Size - L) \div 2 > 0 THEN (Size - L) \div 2 ELSE 0)
          /\ first = <<s.entry>>
          /\ \A n \in 1..Len(selected) :
               \/ Len(selected[n].word) < L
               \/ Len(selected[n].word) = L /\ selected[n].clue > s.entry.clue

\* the seed was not first in arrival order and ties with a later candidate
C5_Witness ==
    /\ placed_words # <<>>
    /\ placed_words[1].entry.clue > 1
    /\ \E n \in 1..Len(selected) :
         Len(selected[n].word) = Len(placed_words[1].entry.word)

\* C6: a word longer than the grid is never placed: on every grid the
\* generation reaches, can_place rejects it at every anchor (on the grid or
\* one step outside it) in both directions, and no element of the
\* placed-word sequence is such a word.
C6_TooLongNeverPlaced ==
    /\ pc = "cross" =>
         \A word \in {w \in Words : Len(w) > Size} :
           \A row \in (0 - 1)..Size : \A col \in (0 - 1)..Size :
             \A direction \in {0, 1} :
               ~can_place(word, row, col, direction, grid)
    /\ \A a \in 1..NPlaced : Len(WordOf(placed_words[a])) <= Size

\* a too-long word was the seed candidate and was skipped
C6_Witness ==
    /\ pc = "cross"
    /\ first # <<>>
    /\ Len(first[1].word) > Size
    /\ placed_words = <<>>

\* row-major rank of a cell
Rank(cell) == cell[1] * Size + cell[2]

\* C7: the numbering map has keys exactly 1..k, its cells strictly increase
\* in row-major order with the number (so no cell is numbered twice), and a
\* cell that starts both an across and a down answer holds one number only.
C7_NumberingSequential ==
    pc = "numbered" =>
      /\ DOMAIN numbers = 1..Cardinality(DOMAIN numbers)
      /\ \A m \in DOMAIN numbers : \A n \in DOMAIN numbers :
           m < n => Rank(numbers[m]) < Rank(numbers[n])
      /\ \A r \in 0..(Size - 1) : \A c \in 0..(Size - 1) :
           (/\ grid[r][c] # None
            /\ (c = 0 \/ grid[r][c - 1] = None)
            /\ (c + 1 < Size /\ grid[r][c + 1] # None)
            /\ (r = 0 \/ grid[r - 1][c] = None)
            /\ (r + 1 < Size /\ grid[r + 1][c] # None))
             => Cardinality({n \in DOMAIN numbers : numbers[n] = <<r, c>>}) = 1

\* a numbered cell starts both an across and a down answer and is followed
\* by another numbered cell
C7_Witness ==
    /\ pc = "numbered"
    /\ \E n \in DOMAIN numbers :
         /\ n \in DOMAIN across
         /\ n \in DOMAIN down
         /\ n + 1 \in DOMAIN numbers

\* C8: at number_grid time no two placed words have both the same anchor
\* cell and the same orientation.
C8_AnchorOrientationUnique ==
    pc \in {"done", "numbered"} =>
      \A a \in 1..NPlaced : \A b \in 1..NPlaced :
        (/\ a # b
         /\ placed_words[a].row = placed_words[b].row
         /\ placed_words[a].col = placed_words[b].col)
          => placed_words[a].direction # placed_words[b].direction

\* C9: every word placed after the seed has the opposite orientation of
\* some earlier-placed word and shares exactly one cell with it, where the
\* two words have the same letter.
C9_CrossesEarlierWord ==
    \A b \in 2..NPlaced :
      \E a \in 1..(b - 1) :
        /\ placed_words[a].direction # placed_words[b].direction
        /\ Cardinality(Cells(placed_words[a]) \cap Cells(placed_words[b])) = 1
        /\ \E i \in 0..(Len(WordOf(placed_words[a])) - 1) :
             \E j \in 0..(Len(WordOf(placed_words[b])) - 1) :
               /\ CellOf(placed_words[a], i) = CellOf(placed_words[b], j)
               /\ WordOf(placed_words[a])[i + 1] = WordOf(placed_words[b])[j + 1]

\* a vertical word crosses the seed and a horizontal word crosses a
\* vertical one
C9_Witness ==
    /\ NPlaced >= 3
    /\ placed_words[2].direction = 1
    /\ placed_words[3].direction = 0
    /\ Cells(placed_words[1]) \cap Cells(placed_words[3]) = {}

\* letter pairs of try_place_word: <<p, i, j>> with placed[p] the crossed
\* word, i its letter index and j the candidate's letter index
Triples(word, placed) ==
    {t \in (1..Len(placed)) \X (0..(Size - 1)) \X (0..(Len(word) - 1)) :
        /\ t[2] < Len(placed[t[1]].entry.word)
        /\ placed[t[1]].entry.word[t[2] + 1] = word[t[3] + 1]}

\* enumeration order: placed word, then i, then j
Earlier(t, u) ==
    \/ t[1] < u[1]
    \/ t[1] = u[1] /\ t[2] < u[2]
    \/ t[1] = u[1] /\ t[2] = u[2] /\ t[3] < u[3]

TripleRow(placed, t) ==
    IF placed[t[1]].direction = 0 THEN placed[t[1]].row - t[3]
                                  ELSE placed[t[1]].row + t[2]
TripleCol(placed, t) ==
    IF placed[t[1]].direction = 0 THEN placed[t[1]].col + t[2]
                                  ELSE placed[t[1]].col - t[3]
TripleDir(placed, t) == 1 - placed[t[1]].direction

ValidTriples(word, placed, g) ==
    {t \in Triples(word, placed) :
        can_place(word, TripleRow(placed, t), TripleCol(placed, t),
                  TripleDir(placed, t), g)}

\* C10: try_place_word commits the placement of the first valid triple in
\* the order (placed word oldest first, i ascending, j ascending), and
\* returns None exactly when no triple is valid.
C10_FirstFit ==
    [][(pc = "cross" /\ k <= Len(selected)) =>
        LET e == selected[k]
            V == ValidTriples(e.word, placed_words, grid)
        IN  /\ (V = {}) <=> (pw' = <<>>)
            /\ V # {} =>
                 \E t \in V :
                   /\ \A u \in V : u = t \/ Earlier(t, u)
                   /\ pw' = <<[entry |-> e,
                               row |-> TripleRow(placed_words, t),
                               col |-> TripleCol(placed_words, t),
                               direction |-> TripleDir(placed_words, t)]>>
                   /\ placed_words' = Append(placed_words, pw'[1])]_vars

\* the committed crossing is not the first letter pair: an earlier pair was
\* tried and rejected by can_place
C10_Witness ==
    /\ pc = "cross"
    /\ pw # <<>>
    /\ NPlaced >= 2
    /\ pw[1] = placed_words[NPlaced]
    /\ LET before == SubSeq(placed_words, 1, NPlaced - 1)
           word == pw[1].entry.word
       IN  \E t \in Triples(word, before) :
             /\ TripleRow(before, t) = pw[1].row
             /\ TripleCol(before, t) = pw[1].col
             /\ TripleDir(before, t) = pw[1].direction
             /\ \E u \in Triples(word, before) : Earlier(u, t)
             /\ \A u \in Triples(word, before) :
                  Earlier(u, t) =>
                    ~(/\ TripleRow(before, u) = pw[1].row
                      /\ TripleCol(before, u) = pw[1].col
                      /\ TripleDir(before, u) = pw[1].direction)

\* C11: with an empty candidate list the grid stays entirely empty, the
\* placed-word sequence stays empty, and number_grid returns three empty
\* maps.
C11_EmptyInputEmptyOutput ==
    (first = <<>> /\ selected = <<>>) =>
      /\ \A r \in 0..(Size - 1) : \A c \in 0..(Size - 1) : grid[r][c] = None
      /\ placed_words = <<>>
      /\ DOMAIN numbers = {}
      /\ DOMAIN across = {}
      /\ DOMAIN down = {}

\* number_grid has run on the result of an empty candidate list
C11_Witness ==
    /\ pc = "numbered"
    /\ first = <<>>
    /\ selected = <<>>

Order == first \o selected
\* number of attempts made so far
Attempts == Len(first) + (k - 1)
\* position of a placed word's entry in Order (0 if absent)
PosInOrder(p) ==
    IF \E n \in 1..Len(Order) : Order[n] = p.entry
    THEN CHOOSE n \in 1..Len(Order) : Order[n] = p.entry
    ELSE 0

\* C13: the candidates are sorted by length, longest first, ties in arrival
\* order; each is attempted exactly once in that order and the generator
\* then terminates; the placed-word sequence only grows by appending, is a
\* subsequence of that order and has non-increasing word lengths.
C13_AttemptsInOrderAppendOnly ==
    /\ [][/\ pc = "sort" =>
               /\ Len(selected') = Len(selected)
               /\ {selected'[n] : n \in 1..Len(selected')}
                    = {selected[n] : n \in 1..Len(selected)}
               /\ \A m \in 1..Len(selected') : \A n \in 1..Len(selected') :
                    m < n =>
                      \/ Len(selected'[m].word) > Len(selected'[n].word)
                      \/ /\ Len(selected'[m].word) = Len(selected'[n].word)
                         /\ selected'[m].clue < selected'[n].clue
          /\ pc # "sort" => Order' = Order
          /\ Attempt => (Attempts' = Attempts + 1 /\ entry' = <<Order'[Attempts']>>)
          /\ ~Attempt => Attempts' = Attempts
          /\ \/ placed_words' = placed_words
             \/ /\ Len(placed_words') = Len(placed_words) + 1
                /\ SubSeq(placed_words', 1, Len(placed_words)) = placed_words
                /\ placed_words'[Len(placed_words')].entry = entry'[1]]_vars
    /\ [](/\ pc = "done" => Attempts = Len(Order)
          /\ \A a \in 1..NPlaced : \A b \in 1..NPlaced :
               a < b =>
                 /\ 0 < PosInOrder(placed_words[a])
                 /\ PosInOrder(placed_words[a]) < PosInOrder(placed_words[b])
                 /\ Len(WordOf(placed_words[a])) >= Len(WordOf(placed_words[b])))
    /\ <>(pc = "done")

\* the run is over, a tie was kept in arrival order although the tied
\* candidates did not arrive first, one candidate was dropped
C13_Witness ==
    /\ pc = "done"
    /\ Len(Order) = 3
    /\ NPlaced = 2
    /\ Len(Order[2].word) = Len(Order[3].word)
    /\ Order[1].clue = 3

\* C14: the seed attempt on the empty grid succeeds exactly when the seed's
\* length L is at most N: then the seed is written horizontally at row
\* N // 2 from column max(0, (N - L) // 2), otherwise nothing is written
\* and nothing is placed.
C14_SeedPlacedIffFits ==
    [][(pc = "seed" /\ selected # <<>>) =>
         LET f == selected[1]
             L == Len(f.word)
             row == Size \div 2
             col == IF (Size - L) \div 2 > 0 THEN (Size - L) \div 2 ELSE 0
         IN  IF L <= Size
             THEN /\ placed_words' = <<[entry |-> f, row |-> row, col |-> col,
                                        direction |-> 0]>>
                  /\ \A r \in 0..(Size - 1) : \A c \in 0..(Size - 1) :
                       grid'[r][c] = IF r = row /\ c >= col /\ c < col + L
                                     THEN f.word[c - col + 1]
                                     ELSE None
             ELSE /\ placed_words' = <<>>
                  /\ grid' = grid
                  /\ pw' = <<>>]_vars

\* a seed that fills the whole row has been placed from column 0
C14_Witness ==
    /\ pc = "cross"
    /\ k = 1
    /\ first # <<>>
    /\ Len(first[1].word) = Size
    /\ placed_words # <<>>
    /\ placed_words[1].col = 0

\* cells a and b are consecutive letters of a placed word of direction d
ConsecutiveInWord(a, b, d) ==
    \E p \in 1..NPlaced :
      /\ placed_words[p].direction = d
      /\ \E i \in 0..(Len(WordOf(placed_words[p])) - 2) :
           /\ CellOf(placed_words[p], i) = a
           /\ CellOf(placed_words[p], i + 1) = b

\* C15: any two horizontally adjacent non-empty cells are consecutive
\* letters of one horizontal placed word, and any two vertically adjacent
\* non-empty cells are consecutive letters of one vertical placed word.
C15_AdjacentCellsShareWord ==
    \A r \in 0..(Size - 1) : \A c \in 0..(Size - 1) :
      /\ (c + 1 < Size /\ grid[r][c] # None /\ grid[r][c + 1] # None)
           => ConsecutiveInWord(<<r, c>>, <<r, c + 1>>, 0)
      /\ (r + 1 < Size /\ grid[r][c] # None /\ grid[r + 1][c] # None)
           => ConsecutiveInWord(<<r, c>>, <<r + 1, c>>, 1)

\* with two words on the grid, a candidate of two or more letters that
\* shares a letter with a placed word was rejected at every crossing
C15_Witness ==
    /\ pc = "cross"
    /\ NPlaced = 2
    /\ entry # <<>>
    /\ pw = <<>>
    /\ Len(entry[1].word) >= 2
    /\ \E a \in 1..NPlaced :
         \E i \in 1..Len(WordOf(placed_words[a])) :
           \E j \in 1..Len(entry[1].word) :
             WordOf(placed_words[a])[i] = entry[1].word[j]

\* C16: after number_grid every placed word of two or more letters has its
\* anchor cell numbered, and that number maps to the word's own clue in the
\* across map if the word is horizontal, in the down map if it is vertical.
C16_AnchorBoundToOwnClue ==
    pc = "numbered" =>
      \A p \in 1..NPlaced :
        Len(WordOf(placed_words[p])) >= 2 =>
          \E n \in DOMAIN numbers :
            /\ numbers[n] = <<placed_words[p].row, placed_words[p].col>>
            /\ IF placed_words[p].direction = 0
               THEN n \in DOMAIN across /\ across[n] = placed_words[p].entry.clue
               ELSE n \in DOMAIN down /\ down[n] = placed_words[p].entry.clue

\* C17: after number_grid every number is bound to a clue: a numbered cell
\* that starts an across answer has an across entry, one that starts a down
\* answer has a down entry, and every number has at least one of the two.
C17_EveryNumberHasClue ==
    pc = "numbered" =>
      \A n \in DOMAIN numbers :
        LET r == numbers[n][1]
            c == numbers[n][2]
            startsAcross == /\ (c = 0 \/ grid[r][c - 1] = None)
                            /\ (c + 1 < Size /\ grid[r][c + 1] # None)
            startsDown == /\ (r = 0 \/ grid[r - 1][c] = None)
                          /\ (r + 1 < Size /\ grid[r + 1][c] # None)
        IN  /\ startsAcross => n \in DOMAIN across
            /\ startsDown => n \in DOMAIN down
            /\ n \in DOMAIN across \/ n \in DOMAIN down

\* three numbered cells, one bound to a down clue only and one to an
\* across clue only
C17_Witness ==
    /\ pc = "numbered"
    /\ Cardinality(DOMAIN numbers) >= 3
    /\ \E n \in DOMAIN numbers : n \in DOMAIN down /\ n \notin DOMAIN across
    /\ \E n \in DOMAIN numbers : n \in DOMAIN across /\ n \notin DOMAIN down

\* every non-empty cell of g lies on a word of placed
AllCovered(g, placed) ==
    \A r \in 0..(Size - 1) : \A c \in 0..(Size - 1) :
      g[r][c] # None =>
        \E p \in 1..Len(placed) : <<r, c>> \in Cells(placed[p])

\* C18: in every step a non-empty cell keeps its letter, a cell changes
\* only if it was empty and is a target cell of the word just placed, and
\* afterwards every non-empty cell lies on a placed word.
C18_GridOnlyGrows ==
    [][/\ \A r \in 0..(Size - 1) : \A c \in 0..(Size - 1) :
            /\ grid[r][c] # None => grid'[r][c] = grid[r][c]
            /\ grid'[r][c] # grid[r][c] =>
                 /\ Attempt
                 /\ pw' # <<>>
                 /\ <<r, c>> \in Cells(pw'[1])
                 /\ placed_words' = Append(placed_words, pw'[1])
       /\ AllCovered(grid', placed_words')]_vars

\* a crossing has been placed over a letter that was already on the grid and
\* added new letters
C18_Witness ==
    /\ pc = "cross"
    /\ pw # <<>>
    /\ NPlaced = 3
    /\ pw[1] = placed_words[3]
    /\ Cells(pw[1]) \cap (Cells(placed_words[1]) \cup Cells(placed_words[2])) # {}
    /\ ~(Cells(pw[1]) \subseteq (Cells(placed_words[1]) \cup Cells(placed_words[2])))

\* C19: when the seed candidate is longer than the grid, no word is ever
\* placed: every later attempt returns None, the grid stays empty and the
\* placed-word sequence stays empty.
C19_NoSeedNoWords ==
    (first # <<>> /\ Len(first[1].word) > Size) =>
      /\ placed_words = <<>>
      /\ pw = <<>>
      /\ \A r \in 0..(Size - 1) : \A c \in 0..(Size - 1) : grid[r][c] = None

\* the run is over, the seed was too long, and a later candidate that fits
\* the grid was attempted
C19_Witness ==
    /\ pc = "done"
    /\ first # <<>>
    /\ Len(first[1].word) > Size
    /\ entry # <<>>
    /\ entry # first
    /\ Len(entry[1].word) <= Size

====
